---- MODULE Spec2Model ----
(***************************************************************************)
(* Login / signup pages of the login_page repository (main.js and the      *)
(* signup script).  One browser tab shows the login page, the signup page  *)
(* or the post-login page; the attempt record lives in localStorage, which *)
(* all tabs of the profile share.                                          *)
(*                                                                         *)
(* The JavaScript functions are modelled as transformers of a record `s`   *)
(* that bundles what a function can read and write: the tab's page state   *)
(* (module variables and DOM), localStorage and the clock.                 *)
(***************************************************************************)
EXTENDS Integers, Sequences, FiniteSets, TLC

VARIABLES
    now,          \* Date.now(), in milliseconds
    ticks,        \* clock advances made or reserved (bounds the exploration)
    storage,      \* localStorage item "loginAttempts": a JSON text, or NoItem
    CONFIG,       \* the CONFIG object of the scripts (never assigned after load)
    page          \* per tab: module variables, DOM state, calls in flight

vars == <<now, ticks, storage, CONFIG, page>>

----------------------------------------------------------------------------
(* The values of CONFIG in main.js (the signup script has the same         *)
(* minPasswordLength)                                                      *)

maxLoginAttempts == 5
lockoutDuration == 15 * 60 * 1000
minPasswordLength == 6

DefaultConfig ==
    [maxLoginAttempts |-> maxLoginAttempts,
     lockoutDuration |-> lockoutDuration,
     minPasswordLength |-> minPasswordLength,
     enableRateLimiting |-> TRUE]

\* delay of the redirect timers
RedirectDelay == 1500

----------------------------------------------------------------------------
(* Bounds of the exploration *)

MaxTicks == 2

\* the clock advances by one of these amounts
TimeSteps == {lockoutDuration - 1, lockoutDuration}

Tabs == {1}

----------------------------------------------------------------------------
(* Strings the code inspects are sequences of one-character strings *)

Str5 == <<"x", "x", "x", "x", "x">>
Str6 == <<"x", "x", "x", "x", "x", "x">>

\* what the user has typed into the email and password fields at a submission
Emails ==
    { <<"a", "@", "b">>,
      <<" ", "a", "@", "b", ".", "c", " ">> }

Passwords == { Str5, Str6 }

IsSpace(c) == c = " "

\* String.prototype.trim
RECURSIVE trim(_)
trim(str) ==
    IF str = <<>> THEN str
    ELSE IF IsSpace(Head(str)) THEN trim(Tail(str))
    ELSE IF IsSpace(str[Len(str)]) THEN trim(SubSeq(str, 1, Len(str) - 1))
    ELSE str

\* faulty variant: the pattern does not ask for the dot and what follows it
isValidEmailNoDot(email) ==
    \E i \in 1..Len(email) :
        /\ email[i] = "@"
        /\ 1 < i
        /\ i < Len(email)
        /\ \A k \in 1..Len(email) :
              k # i => ~IsSpace(email[k]) /\ email[k] # "@"

\* /^[^\s@]+@[^\s@]+\.[^\s@]+$/ .test(email)
isValidEmail(email) ==
    \E i \in 1..Len(email) : \E j \in 1..Len(email) :
        /\ email[i] = "@"
        /\ email[j] = "."
        /\ 1 < i
        /\ i + 1 < j
        /\ j < Len(email)
        /\ \A k \in 1..Len(email) :
              k # i => ~IsSpace(email[k]) /\ email[k] # "@"

----------------------------------------------------------------------------
(* localStorage and JSON *)

NoItem == <<>>

\* JSON.stringify({count, timestamp})
JSONstringify(rec) ==
    <<"{", "count", rec.count, "timestamp", rec.timestamp, "}">>

IsJSON(text) ==
    /\ Len(text) = 6
    /\ text[1] = "{"
    /\ text[2] = "count"
    /\ text[4] = "timestamp"
    /\ text[6] = "}"

\* JSON.parse of a well-formed record text
JSONparse(text) == [count |-> text[3], timestamp |-> text[5]]

----------------------------------------------------------------------------
(* Message texts *)

MsgNone == ""
MsgLockout == "Account temporarily locked due to too many failed attempts. Try again in N minutes."
MsgLoginSuccess == "Login successful! Redirecting..."
MsgGoogleSuccess == "Google login successful! Redirecting..."
MsgUnexpected == "An unexpected error occurred. Please try again."
MsgSignupSuccess == "Account created successfully! Redirecting..."
MsgGoogleSignupSuccess == "Account created with Google! Redirecting..."

MsgEmailRequired == "Email is required"
MsgEmailInvalid == "Please enter a valid email address"
MsgPasswordRequired == "Password is required"
MsgPasswordShort == "Password must be at least 6 characters"
MsgConfirmRequired == "Please confirm your password"
MsgConfirmMismatch == "Passwords do not match"

\* provider errors: a code and a message
Err(code, message) == [code |-> code, message |-> message]

\* errors setPersistence is rejected with
PersistenceErrors ==
    { Err("auth/internal-error", "") }

\* errors signInWithEmailAndPassword is rejected with
SignInErrors ==
    { Err("auth/wrong-password", "Firebase: Error (auth/wrong-password)."),
      Err("auth/internal-error", "Firebase: Error (auth/internal-error).") }

\* errors the popup call is rejected with
PopupErrors ==
    { Err("auth/popup-closed-by-user", "Firebase: Error (auth/popup-closed-by-user)."),
      Err("auth/internal-error", "Firebase: Error (auth/internal-error).") }

\* errors createUserWithEmailAndPassword and updateProfile are rejected with
CreateUserErrors ==
    { Err("auth/email-already-in-use", "Firebase: Error (auth/email-already-in-use).") }

UpdateProfileErrors ==
    { Err("auth/network-request-failed", "Firebase: Error (auth/network-request-failed).") }

\* errors the popup call of the signup page is rejected with
SignupPopupErrors ==
    { Err("auth/internal-error", "") }

\* what the user has typed into the three fields at a signup submission
SignupInputs ==
    { <<<<"a", "@", "b", ".", "c">>, Str6, Str6>>,
      <<<<"a", "@", "b", ".", "c">>, Str6, Str5>> }

----------------------------------------------------------------------------
(* UI helpers (identical in both scripts) *)

NoMessage == [text |-> MsgNone, minutes |-> 0, type |-> "info", show |-> FALSE]

\* showMessage(message, type); `minutes` is the number the lockout text embeds
showMessage(s, text, minutes, type) ==
    [s EXCEPT !.message = [text |-> text, minutes |-> minutes,
                           type |-> type, show |-> TRUE],
              !.shown = Append(@, text)]

clearMessages(s) == [s EXCEPT !.message.show = FALSE]

showFieldError(s, fieldName, text) ==
    [s EXCEPT !.fieldErrors[fieldName] = text]

clearFieldError(s, fieldName) ==
    [s EXCEPT !.fieldErrors[fieldName] = ""]

setLoading(s, loading, buttonId) ==
    IF loading
    THEN [s EXCEPT !.loading = @ \cup {buttonId}, !.disabled = @ \cup {buttonId}]
    ELSE [s EXCEPT !.loading = @ \ {buttonId}, !.disabled = @ \ {buttonId}]

----------------------------------------------------------------------------
(* Login attempt tracking (main.js) *)

\* getLoginAttempts(); the caller has checked that the item parses
getLoginAttempts(s) ==
    IF s.storage # NoItem
    THEN JSONparse(s.storage)
    ELSE [count |-> 0, timestamp |-> s.now]

\* an uncaught exception: the running script stops
Throw(s, name) == [s EXCEPT !.status = "failed", !.thrown = name]

\* the remaining minutes shown: Math.ceil(ms / 60000)
CeilMinutes(ms) == IF ms % 60000 = 0 THEN ms \div 60000 ELSE (ms \div 60000) + 1

\* elements matched by loginForm.querySelectorAll("input, button")
FormControls(s) ==
    {"inputs", "login-btn"} \cup (IF s.googleInForm THEN {"google-login-btn"} ELSE {})

showLockoutMessage(s) ==
    LET remainingTime ==
            CeilMinutes(CONFIG.lockoutDuration - (s.now - s.loginAttempts.timestamp))
        s1 == showMessage(s, MsgLockout, remainingTime, "error")
    IN  [s1 EXCEPT !.disabled = @ \cup FormControls(s)]

\* faulty variant: the count is capped at maxLoginAttempts
incrementLoginAttemptsCapped(s) ==
    LET c == IF s.loginAttempts.count + 1 > CONFIG.maxLoginAttempts
             THEN CONFIG.maxLoginAttempts ELSE s.loginAttempts.count + 1
        attempts == [count |-> c, timestamp |-> s.now]
        s1 == [s EXCEPT !.loginAttempts = attempts,
                        !.storage = JSONstringify(attempts)]
    IN  IF attempts.count >= CONFIG.maxLoginAttempts
        THEN showLockoutMessage([s1 EXCEPT !.isLocked = TRUE])
        ELSE s1

\* faulty variant: the timestamp of the record is not refreshed
incrementLoginAttemptsStaleTime(s) ==
    LET attempts == [count |-> s.loginAttempts.count + 1,
                     timestamp |-> s.loginAttempts.timestamp]
        s1 == [s EXCEPT !.loginAttempts = attempts,
                        !.storage = JSONstringify(attempts)]
    IN  IF attempts.count >= CONFIG.maxLoginAttempts
        THEN showLockoutMessage([s1 EXCEPT !.isLocked = TRUE])
        ELSE s1

\* faulty variant: the count is taken from the persisted item, not from
\* the page's own record
incrementLoginAttemptsFromStorage(s) ==
    LET attempts == [count |-> getLoginAttempts(s).count + 1, timestamp |-> s.now]
        s1 == [s EXCEPT !.loginAttempts = attempts,
                        !.storage = JSONstringify(attempts)]
    IN  IF attempts.count >= CONFIG.maxLoginAttempts
        THEN showLockoutMessage([s1 EXCEPT !.isLocked = TRUE])
        ELSE s1

\* faulty variant: the new record is not written to localStorage
incrementLoginAttemptsNoPersist(s) ==
    LET attempts == [count |-> s.loginAttempts.count + 1, timestamp |-> s.now]
        s1 == [s EXCEPT !.loginAttempts = attempts]
    IN  IF attempts.count >= CONFIG.maxLoginAttempts
        THEN showLockoutMessage([s1 EXCEPT !.isLocked = TRUE])
        ELSE s1

incrementLoginAttempts(s) ==
    IF ~CONFIG.enableRateLimiting THEN s
    ELSE
        LET attempts == [count |-> s.loginAttempts.count + 1, timestamp |-> s.now]
            s1 == [s EXCEPT !.loginAttempts = attempts,
                            !.storage = JSONstringify(attempts)]
        IN  IF attempts.count >= CONFIG.maxLoginAttempts
            THEN showLockoutMessage([s1 EXCEPT !.isLocked = TRUE])
            ELSE s1

\* faulty variant: the persisted entry is not removed
resetLoginAttemptsKeepsItem(s) ==
    [s EXCEPT !.loginAttempts = [count |-> 0, timestamp |-> s.now],
              !.isLocked = FALSE]

\* faulty variant: the reset leaves isLocked as it is
resetLoginAttemptsKeepsLock(s) ==
    [s EXCEPT !.loginAttempts = [count |-> 0, timestamp |-> s.now],
              !.storage = NoItem]

\* the assignment to isLocked throws while the binding is still in its
\* temporal dead zone (the initializer of `let isLocked` is running)
resetLoginAttempts(s) ==
    LET s1 == [s EXCEPT !.loginAttempts = [count |-> 0, timestamp |-> s.now],
                        !.storage = NoItem]
    IN  IF "isLocked" \in s.tdz
        THEN Throw(s1, "ReferenceError")
        ELSE [s1 EXCEPT !.isLocked = FALSE]

\* faulty variant: the lockout check ignores CONFIG.enableRateLimiting
checkLockoutIgnoresSwitch(s) ==
    LET attempts == getLoginAttempts(s)
    IN  IF attempts.count >= CONFIG.maxLoginAttempts
        THEN IF s.now - attempts.timestamp < CONFIG.lockoutDuration
             THEN [state |-> s, ret |-> TRUE]
             ELSE [state |-> resetLoginAttempts(s), ret |-> FALSE]
        ELSE [state |-> s, ret |-> FALSE]

\* checkLockout(): the state after the call and the value returned
\* (ret is meaningless when the call threw)
checkLockout(s) ==
    IF ~CONFIG.enableRateLimiting THEN [state |-> s, ret |-> FALSE]
    ELSE
        LET attempts == getLoginAttempts(s)
        IN  IF attempts.count >= CONFIG.maxLoginAttempts
            THEN LET timeSinceLockout == s.now - attempts.timestamp
                 IN  IF timeSinceLockout < CONFIG.lockoutDuration
                     THEN [state |-> s, ret |-> TRUE]
                     ELSE [state |-> resetLoginAttempts(s), ret |-> FALSE]
            ELSE [state |-> s, ret |-> FALSE]

\* faulty variant: the error's own message, when it has one, wins over the table
handleLoginErrorPrefersMessage(s, error) ==
    LET message ==
            IF error.message # "" THEN error.message
            ELSE CASE error.code = "auth/user-not-found" ->
                        "No account found with this email address."
                   [] error.code = "auth/wrong-password" ->
                        "Incorrect password. Please try again."
                   [] OTHER -> MsgUnexpected
    IN  showMessage(s, message, 0, "error")

\* handleLoginError(error)
handleLoginError(s, error) ==
    LET message ==
            CASE error.code = "auth/user-not-found" ->
                    "No account found with this email address."
              [] error.code = "auth/wrong-password" ->
                    "Incorrect password. Please try again."
              [] error.code = "auth/invalid-email" ->
                    "Please enter a valid email address."
              [] error.code = "auth/user-disabled" ->
                    "This account has been disabled. Please contact support."
              [] error.code = "auth/too-many-requests" ->
                    "Too many failed attempts. Please try again later."
              [] error.code = "auth/network-request-failed" ->
                    "Network error. Please check your connection and try again."
              [] error.code = "auth/popup-closed-by-user" ->
                    "Sign-in was cancelled. Please try again."
              [] error.code = "auth/popup-blocked" ->
                    "Pop-up was blocked. Please allow pop-ups and try again."
              [] OTHER ->
                    IF error.message # "" THEN error.message ELSE MsgUnexpected
    IN  showMessage(s, message, 0, "error")

\* faulty variant: the length of the password is not checked
validateFormNoLength(s, email, password) ==
    LET emailError ==
            IF email = <<>> THEN MsgEmailRequired
            ELSE IF ~isValidEmail(email) THEN MsgEmailInvalid
            ELSE ""
        passwordError == IF password = <<>> THEN MsgPasswordRequired ELSE ""
        s1 == IF emailError # "" THEN showFieldError(s, "email", emailError) ELSE s
        s2 == IF passwordError # "" THEN showFieldError(s1, "password", passwordError)
              ELSE s1
    IN  [state |-> s2, ret |-> (emailError = "" /\ passwordError = "")]

\* validateForm(email, password) of main.js: the state with the field errors
\* rendered, and the value returned
validateForm(s, email, password) ==
    LET emailError ==
            IF email = <<>> THEN MsgEmailRequired
            ELSE IF ~isValidEmail(email) THEN MsgEmailInvalid
            ELSE ""
        passwordError ==
            IF password = <<>> THEN MsgPasswordRequired
            ELSE IF Len(password) < CONFIG.minPasswordLength THEN MsgPasswordShort
            ELSE ""
        s1 == IF emailError # "" THEN showFieldError(s, "email", emailError) ELSE s
        s2 == IF passwordError # "" THEN showFieldError(s1, "password", passwordError)
              ELSE s1
    IN  [state |-> s2, ret |-> (emailError = "" /\ passwordError = "")]

----------------------------------------------------------------------------
(* A tab's page state *)

NoTimer == -1

PageFields ==
    {"url", "googleInForm", "status", "thrown", "tdz", "loginAttempts", "isLocked", "formCall",
     "popupCall", "disabled", "loading", "message", "shown", "fieldErrors", "navAt"}

\* a document that has just been fetched: no script has run yet
FreshPage(url) ==
    [url |-> url,
     googleInForm |-> FALSE,      \* layout: is #google-login-btn inside #login-form
     status |-> "evaluating",     \* "evaluating", "ready" or "failed"
     thrown |-> "",               \* the uncaught exception, if any
     tdz |-> {},                  \* module bindings not yet initialized
     loginAttempts |-> [count |-> 0, timestamp |-> 0],
     isLocked |-> FALSE,
     formCall |-> "idle",         \* provider call awaited by the form handler
     popupCall |-> "idle",        \* provider call awaited by the Google handler
     disabled |-> {},             \* controls with disabled = true
     loading |-> {},              \* buttons with class "loading"
     message |-> NoMessage,       \* #auth-messages
     shown |-> <<>>,              \* texts showMessage rendered in the last handler
     fieldErrors |-> [f \in {"email", "password", "confirm-password"} |-> ""],
     navAt |-> NoTimer]           \* when the earliest redirect timer fires

ClosedTab == [FreshPage("none") EXCEPT !.status = "failed"]

\* what the script running in tab t reads and writes
View(t) == [storage |-> storage, now |-> now] @@ page[t]

\* the script in tab t has run to its next suspension point, leaving s
Commit(t, s) ==
    /\ page' = [page EXCEPT ![t] = [f \in PageFields |-> s[f]]]
    /\ storage' = s.storage
    /\ ticks' = IF s.navAt # NoTimer /\ page[t].navAt = NoTimer
                THEN ticks + 1 ELSE ticks
    /\ UNCHANGED <<now, CONFIG>>

\* the clock advance a new redirect timer will need is within the bound
CanSchedule(t) == page[t].navAt # NoTimer \/ ticks < MaxTicks

\* an event handler starts running
Entered(s) == [s EXCEPT !.shown = <<>>]

Ready(t, url) == page[t].url = url /\ page[t].status = "ready"

\* setTimeout(() => window.location.href = "logged.html", 1500)
scheduleRedirect(s) ==
    [s EXCEPT !.navAt = IF @ = NoTimer THEN s.now + RedirectDelay ELSE @]

----------------------------------------------------------------------------
(* main.js: module evaluation and the DOMContentLoaded handler *)

setupUI(s) == IF s.isLocked THEN showLockoutMessage(s) ELSE s

loginModule(s0) ==
    LET s1 == IF s0.storage # NoItem /\ ~IsJSON(s0.storage)
              THEN Throw(s0, "SyntaxError")
              ELSE [s0 EXCEPT !.loginAttempts = getLoginAttempts(s0),
                              !.tdz = @ \ {"loginAttempts"}]
        r  == checkLockout(s1)
        s2 == IF s1.status = "failed" THEN s1
              ELSE IF r.state.status = "failed" THEN r.state
              ELSE [r.state EXCEPT !.isLocked = r.ret, !.tdz = @ \ {"isLocked"}]
    IN  IF s2.status = "failed" THEN s2
        ELSE setupUI([s2 EXCEPT !.status = "ready"])

\* the user opens or reloads the login page in tab t; the markup of the page
\* is not part of the sources, so both layouts of the Google button are taken
LoadLoginWith(t, inForm) ==
    LET fresh == [FreshPage("login") EXCEPT !.googleInForm = inForm,
                                            !.tdz = {"loginAttempts", "isLocked"}]
    IN  Commit(t, loginModule([storage |-> storage, now |-> now] @@ fresh))

LoadLogin(t) == \E inForm \in BOOLEAN : LoadLoginWith(t, inForm)

----------------------------------------------------------------------------
(* main.js: handleLogin *)

\* FormData leaves out disabled controls: get() then returns null
formValue(s, value) == IF "inputs" \in s.disabled THEN <<>> ELSE value

\* faulty variant: the submission is not gated by isLocked
handleLoginNoGate(s, emailInput, passwordInput) ==
    LET email == trim(formValue(s, emailInput))
        password == formValue(s, passwordInput)
        v == validateForm(s, email, password)
    IN  IF ~v.ret THEN v.state
        ELSE [clearMessages(setLoading(v.state, TRUE, "login-btn"))
                EXCEPT !.formCall = "setPersistence"]

\* handleLogin up to its first await
handleLogin(s, emailInput, passwordInput) ==
    IF s.isLocked THEN showLockoutMessage(s)
    ELSE
        LET email == trim(formValue(s, emailInput))
            password == formValue(s, passwordInput)
            v == validateForm(s, email, password)
        IN  IF ~v.ret THEN v.state
            ELSE [clearMessages(setLoading(v.state, TRUE, "login-btn"))
                    EXCEPT !.formCall = "setPersistence"]

\* the try block after the awaited call resolved, then finally
loginResolved(s, text, buttonId) ==
    LET s1 == resetLoginAttempts(s)
        s2 == showMessage(s1, text, 0, "success")
        s3 == scheduleRedirect(s2)
    IN  setLoading(s3, FALSE, buttonId)

\* faulty variant: setLoading(false) sits at the end of the try block, not in finally
loginRejectedNoFinally(s, error, buttonId) ==
    incrementLoginAttempts(handleLoginError(s, error))

\* the catch block, then finally
loginRejected(s, error, buttonId) ==
    LET s1 == handleLoginError(s, error)
        s2 == incrementLoginAttempts(s1)
    IN  setLoading(s2, FALSE, buttonId)

\* the submit event of #login-form, with these values typed into the fields
SubmitLoginWith(t, email, password) ==
    /\ Ready(t, "login")
    /\ "login-btn" \notin page[t].disabled
    /\ Commit(t, handleLogin(Entered(View(t)), email, password))

SubmitLogin(t) ==
    \E email \in Emails, password \in Passwords : SubmitLoginWith(t, email, password)

SetPersistenceResolved(t) ==
    /\ Ready(t, "login")
    /\ page[t].formCall = "setPersistence"
    /\ Commit(t, [Entered(View(t)) EXCEPT !.formCall = "signIn"])

SetPersistenceRejectedWith(t, error) ==
    /\ Ready(t, "login")
    /\ page[t].formCall = "setPersistence"
    /\ Commit(t, loginRejected([Entered(View(t)) EXCEPT !.formCall = "idle"],
                               error, "login-btn"))

SetPersistenceRejected(t) ==
    \E error \in PersistenceErrors : SetPersistenceRejectedWith(t, error)

SignInResolved(t) ==
    /\ Ready(t, "login")
    /\ page[t].formCall = "signIn"
    /\ CanSchedule(t)
    /\ Commit(t, loginResolved([Entered(View(t)) EXCEPT !.formCall = "idle"],
                               MsgLoginSuccess, "login-btn"))

SignInRejectedWith(t, error) ==
    /\ Ready(t, "login")
    /\ page[t].formCall = "signIn"
    /\ Commit(t, loginRejected([Entered(View(t)) EXCEPT !.formCall = "idle"],
                               error, "login-btn"))

SignInRejected(t) ==
    \E error \in SignInErrors : SignInRejectedWith(t, error)

----------------------------------------------------------------------------
(* main.js: handleGoogleLogin *)

handleGoogleLogin(s) ==
    IF s.isLocked THEN showLockoutMessage(s)
    ELSE [clearMessages(setLoading(s, TRUE, "google-login-btn"))
            EXCEPT !.popupCall = "signInWithPopup"]

ClickGoogleLogin(t) ==
    /\ Ready(t, "login")
    /\ "google-login-btn" \notin page[t].disabled
    /\ Commit(t, handleGoogleLogin(Entered(View(t))))

PopupResolved(t) ==
    /\ Ready(t, "login")
    /\ page[t].popupCall = "signInWithPopup"
    /\ CanSchedule(t)
    /\ Commit(t, loginResolved([Entered(View(t)) EXCEPT !.popupCall = "idle"],
                               MsgGoogleSuccess, "google-login-btn"))

PopupRejectedWith(t, error) ==
    /\ Ready(t, "login")
    /\ page[t].popupCall = "signInWithPopup"
    /\ Commit(t, loginRejected([Entered(View(t)) EXCEPT !.popupCall = "idle"],
                               error, "google-login-btn"))

PopupRejected(t) ==
    \E error \in PopupErrors : PopupRejectedWith(t, error)

----------------------------------------------------------------------------
(* The signup script *)

handleSignupError(s, error) ==
    LET message ==
            CASE error.code = "auth/email-already-in-use" ->
                    "An account already exists with this email address."
              [] error.code = "auth/invalid-email" ->
                    "Please enter a valid email address."
              [] error.code = "auth/weak-password" ->
                    "Password is too weak. Please use a stronger password."
              [] error.code = "auth/network-request-failed" ->
                    "Network error. Please check your connection and try again."
              [] error.code = "auth/popup-closed-by-user" ->
                    "Sign-up was cancelled. Please try again."
              [] error.code = "auth/popup-blocked" ->
                    "Pop-up was blocked. Please allow pop-ups and try again."
              [] OTHER ->
                    IF error.message # "" THEN error.message ELSE MsgUnexpected
    IN  showMessage(s, message, 0, "error")

validateSignupForm(s, email, password, confirmPassword) ==
    LET v == validateForm(s, email, password)
        confirmError ==
            IF confirmPassword = <<>> THEN MsgConfirmRequired
            ELSE IF password # confirmPassword THEN MsgConfirmMismatch
            ELSE ""
        s1 == IF confirmError # ""
              THEN showFieldError(v.state, "confirm-password", confirmError)
              ELSE v.state
    IN  [state |-> s1, ret |-> (v.ret /\ confirmError = "")]

\* handleSignup up to its first await
handleSignup(s, emailInput, password, confirmPassword) ==
    LET v == validateSignupForm(s, trim(emailInput), password, confirmPassword)
    IN  IF ~v.ret THEN v.state
        ELSE [clearMessages(setLoading(v.state, TRUE, "signup-btn"))
                EXCEPT !.formCall = "createUser"]

signupResolved(s, text, buttonId) ==
    setLoading(scheduleRedirect(showMessage(s, text, 0, "success")), FALSE, buttonId)

\* faulty variant: a rejected signup is counted like a rejected login
signupRejectedCounts(s, error, buttonId) ==
    setLoading(incrementLoginAttempts(handleSignupError(s, error)), FALSE, buttonId)

signupRejected(s, error, buttonId) ==
    setLoading(handleSignupError(s, error), FALSE, buttonId)

handleGoogleSignup(s) ==
    [clearMessages(setLoading(s, TRUE, "google-signup-btn"))
        EXCEPT !.popupCall = "signInWithPopup"]

\* the user opens the signup page in tab t
LoadSignup(t) ==
    Commit(t, [storage |-> storage, now |-> now]
                 @@ [FreshPage("signup") EXCEPT !.status = "ready"])

\* the click listener of #signup-link on the login page
ClickSignupLink(t) ==
    /\ Ready(t, "login")
    /\ LoadSignup(t)

SubmitSignup(t) ==
    /\ Ready(t, "signup")
    /\ "signup-btn" \notin page[t].disabled
    /\ \E in \in SignupInputs :
          Commit(t, handleSignup(Entered(View(t)), in[1], in[2], in[3]))

CreateUserResolved(t) ==
    /\ Ready(t, "signup")
    /\ page[t].formCall = "createUser"
    /\ Commit(t, [Entered(View(t)) EXCEPT !.formCall = "updateProfile"])

CreateUserRejected(t) ==
    /\ Ready(t, "signup")
    /\ page[t].formCall = "createUser"
    /\ \E error \in CreateUserErrors :
          Commit(t, signupRejected([Entered(View(t)) EXCEPT !.formCall = "idle"],
                                   error, "signup-btn"))

UpdateProfileResolved(t) ==
    /\ Ready(t, "signup")
    /\ page[t].formCall = "updateProfile"
    /\ CanSchedule(t)
    /\ Commit(t, signupResolved([Entered(View(t)) EXCEPT !.formCall = "idle"],
                                MsgSignupSuccess, "signup-btn"))

UpdateProfileRejected(t) ==
    /\ Ready(t, "signup")
    /\ page[t].formCall = "updateProfile"
    /\ \E error \in UpdateProfileErrors :
          Commit(t, signupRejected([Entered(View(t)) EXCEPT !.formCall = "idle"],
                                   error, "signup-btn"))

ClickGoogleSignup(t) ==
    /\ Ready(t, "signup")
    /\ "google-signup-btn" \notin page[t].disabled
    /\ Commit(t, handleGoogleSignup(Entered(View(t))))

SignupPopupResolved(t) ==
    /\ Ready(t, "signup")
    /\ page[t].popupCall = "signInWithPopup"
    /\ CanSchedule(t)
    /\ Commit(t, signupResolved([Entered(View(t)) EXCEPT !.popupCall = "idle"],
                                MsgGoogleSignupSuccess, "google-signup-btn"))

SignupPopupRejected(t) ==
    /\ Ready(t, "signup")
    /\ page[t].popupCall = "signInWithPopup"
    /\ \E error \in SignupPopupErrors :
          Commit(t, signupRejected([Entered(View(t)) EXCEPT !.popupCall = "idle"],
                                   error, "google-signup-btn"))

----------------------------------------------------------------------------
(* Other events *)

\* the "input" listener of a .form-input: clearFieldError(input)
InputEvent(t) ==
    /\ page[t].url \in {"login", "signup"}
    /\ page[t].status = "ready"
    /\ "inputs" \notin page[t].disabled
    /\ \E f \in {"email", "password", "confirm-password"} :
          /\ page[t].fieldErrors[f] # ""
          /\ Commit(t, clearFieldError(View(t), f))

\* a redirect timer fires: the tab leaves for logged.html
Redirect(t) ==
    /\ page[t].navAt # NoTimer
    /\ now' = IF now < page[t].navAt THEN page[t].navAt ELSE now
    /\ page' = [page EXCEPT ![t] = [FreshPage("logged") EXCEPT !.status = "ready"]]
    /\ UNCHANGED <<ticks, storage, CONFIG>>

\* time passes; a timer that is due fires before anything later happens
Tick ==
    /\ ticks < MaxTicks
    /\ \E d \in TimeSteps :
          /\ \A t \in DOMAIN page : page[t].navAt # NoTimer => now + d < page[t].navAt
          /\ now' = now + d
    /\ ticks' = ticks + 1
    /\ UNCHANGED <<storage, CONFIG, page>>

----------------------------------------------------------------------------
(* The specification *)

Init ==
    /\ now = 0
    /\ ticks = 0
    /\ storage = NoItem
    /\ CONFIG = DefaultConfig
    /\ page = [t \in Tabs |-> ClosedTab]

Next ==
    \/ Tick
    \/ \E t \in Tabs :
          \/ LoadLogin(t)
          \/ SubmitLogin(t)
          \/ SetPersistenceResolved(t)
          \/ SetPersistenceRejected(t)
          \/ SignInResolved(t)
          \/ SignInRejected(t)
          \/ ClickGoogleLogin(t)
          \/ PopupResolved(t)
          \/ PopupRejected(t)
          \/ LoadSignup(t)
          \/ ClickSignupLink(t)
          \/ SubmitSignup(t)
          \/ CreateUserResolved(t)
          \/ CreateUserRejected(t)
          \/ UpdateProfileResolved(t)
          \/ UpdateProfileRejected(t)
          \/ ClickGoogleSignup(t)
          \/ SignupPopupResolved(t)
          \/ SignupPopupRejected(t)
          \/ InputEvent(t)
          \/ Redirect(t)

Spec == Init /\ [][Next]_vars

\* a timer set with setTimeout fires unless its page is unloaded first
LiveSpec == Spec /\ \A t \in Tabs : WF_vars(Redirect(t))

----------------------------------------------------------------------------
(* The page is opened on a profile that already holds an item under the    *)
(* key "loginAttempts": localStorage outlives the page and is writable by  *)
(* the user and by every script of the origin                              *)

\* a text JSON.parse rejects (a truncated record)
MalformedItem == <<"{", "count">>

PersistedItems ==
    { NoItem,
      MalformedItem,
      JSONstringify([count |-> maxLoginAttempts - 1, timestamp |-> 0]),
      JSONstringify([count |-> maxLoginAttempts, timestamp |-> 0]) }

StoredInit ==
    /\ now = 0
    /\ ticks = 0
    /\ storage \in PersistedItems
    /\ CONFIG = DefaultConfig
    /\ page = [t \in Tabs |-> ClosedTab]

StoredSpec == StoredInit /\ [][Next]_vars

\* the same pages deployed with CONFIG.enableRateLimiting set to false
DisabledInit ==
    /\ now = 0
    /\ ticks = 0
    /\ storage \in PersistedItems
    /\ CONFIG = [DefaultConfig EXCEPT !.enableRateLimiting = FALSE]
    /\ page = [t \in Tabs |-> ClosedTab]

DisabledSpec == DisabledInit /\ [][Next]_vars

\* The login flows of one page under every kind of provider error: the eight
\* codes handleLoginError knows and one it does not, each with and without a
\* message of its own
KnownLoginCodes ==
    { "auth/user-not-found", "auth/wrong-password", "auth/invalid-email",
      "auth/user-disabled", "auth/too-many-requests", "auth/network-request-failed",
      "auth/popup-closed-by-user", "auth/popup-blocked" }

AnyLoginErrors ==
    { Err(code, message) : code \in KnownLoginCodes \cup {"auth/unknown-code-xyz"},
                           message \in {"", "oops"} }

ErrorsNext ==
    \E t \in Tabs :
        \/ LoadLogin(t)
        \/ SubmitLoginWith(t, <<"a", "@", "b", ".", "c">>, Str6)
        \/ SetPersistenceResolved(t)
        \/ ClickGoogleLogin(t)
        \/ \E error \in AnyLoginErrors :
              \/ SetPersistenceRejectedWith(t, error)
              \/ SignInRejectedWith(t, error)
              \/ PopupRejectedWith(t, error)

ErrorsSpec == Init /\ [][ErrorsNext]_vars

\* The login form under a wider range of field values (none with leading or
\* trailing white space, so that trim() leaves them alone)
FormEmails ==
    { <<>>,
      <<"a", "@", "b", ".", "c", "o", "m">>,
      <<"a", "@", "b", ".", "c", "o">>,
      <<"a", "@", "b">>,
      <<"a", " ", "b", "@", "c", ".", "c", "o", "m">>,
      <<"@", "b", ".", "c">>,
      <<"a", "@", ".", "c">>,
      <<"a", "@", "b", ".">>,
      <<"a", "@", "@", "b", ".", "c">>,
      <<"a", ".", "b", "@", "c", ".", "d", ".", "e">> }

FormPasswords ==
    { <<>>, <<"x">>, Str5, Str6, Str6 \o <<"x">>, <<" ", " ", " ", " ", " ", " ">> }

ValidationNext ==
    \E t \in Tabs :
        \/ LoadLogin(t)
        \/ \E email \in FormEmails, password \in FormPasswords :
              SubmitLoginWith(t, email, password)
        \/ InputEvent(t)
        \/ SetPersistenceRejected(t)

ValidationSpec == Init /\ [][ValidationNext]_vars

\* Two tabs of one browser profile, both on the login page and using its
\* form: they share localStorage, each has its own module variables and DOM.
\* The Google button is not used here, so one layout of it is enough.
TwoTabs == {1, 2}

TwoTabInit ==
    /\ now = 0
    /\ ticks = 0
    /\ storage = NoItem
    /\ CONFIG = DefaultConfig
    /\ page = [t \in TwoTabs |-> ClosedTab]

TwoTabNext ==
    \/ Tick
    \/ \E t \in TwoTabs :
          \/ LoadLoginWith(t, FALSE)
          \/ SubmitLoginWith(t, <<"a", "@", "b", ".", "c">>, Str6)
          \/ SetPersistenceResolved(t)
          \/ SignInResolved(t)
          \/ SignInRejectedWith(t, Err("auth/wrong-password",
                                       "Firebase: Error (auth/wrong-password)."))
          \/ Redirect(t)

TwoTabSpec == TwoTabInit /\ [][TwoTabNext]_vars

----------------------------------------------------------------------------
(* Sanity of the model *)

\* a handler's call slot is never overwritten while a call is in flight
OneCallPerTrigger ==
    \A t \in Tabs :
        /\ page[t].formCall # "idle" =>
              {"login-btn", "signup-btn"} \cap page[t].disabled # {}
        /\ page[t].popupCall # "idle" =>
              {"google-login-btn", "google-signup-btn"} \cap page[t].disabled # {}

----------------------------------------------------------------------------
(* Vocabulary of the properties *)

LoginErrors == PersistenceErrors \cup SignInErrors \cup PopupErrors

\* the provider rejects a login call of tab t with this error
LoginFailure(t, error) ==
    \/ SetPersistenceRejectedWith(t, error)
    \/ SignInRejectedWith(t, error)
    \/ PopupRejectedWith(t, error)

\* the provider accepts a login of tab t
LoginSuccess(t) == SignInResolved(t) \/ PopupResolved(t)

\* a login submission in tab t: the form's submit event or a Google click
LoginSubmission(t) == SubmitLogin(t) \/ ClickGoogleLogin(t)

\* a record is inside its lockout window at time `at`
InLockout(rec, at) ==
    /\ rec.count >= maxLoginAttempts
    /\ at - rec.timestamp < lockoutDuration

PersistedRecord == IF storage = NoItem THEN [count |-> 0, timestamp |-> now]
                   ELSE JSONparse(storage)

LockoutShown(pg) ==
    /\ pg.message.text = MsgLockout
    /\ pg.message.show
    /\ pg.message.type = "error"

\* the canned sentence of each provider code the login page knows
CannedLoginText ==
    [code \in { "auth/user-not-found", "auth/wrong-password", "auth/invalid-email",
                "auth/user-disabled", "auth/too-many-requests",
                "auth/network-request-failed", "auth/popup-closed-by-user",
                "auth/popup-blocked" } |->
        CASE code = "auth/user-not-found" -> "No account found with this email address."
          [] code = "auth/wrong-password" -> "Incorrect password. Please try again."
          [] code = "auth/invalid-email" -> "Please enter a valid email address."
          [] code = "auth/user-disabled" ->
                "This account has been disabled. Please contact support."
          [] code = "auth/too-many-requests" ->
                "Too many failed attempts. Please try again later."
          [] code = "auth/network-request-failed" ->
                "Network error. Please check your connection and try again."
          [] code = "auth/popup-closed-by-user" ->
                "Sign-in was cancelled. Please try again."
          [] code = "auth/popup-blocked" ->
                "Pop-up was blocked. Please allow pop-ups and try again."]

\* the message a rejected login is to show
TranslatedLoginText(error) ==
    IF error.code \in DOMAIN CannedLoginText THEN CannedLoginText[error.code]
    ELSE IF error.message # "" THEN error.message
    ELSE "An unexpected error occurred. Please try again."

\* the form values pass the login form's validation
ValidLoginInput(email, password) ==
    /\ email # <<>>
    /\ isValidEmail(email)
    /\ password # <<>>
    /\ Len(password) >= 6

\* the persisted lockout has run out when the page loads
ExpiredAtLoad ==
    /\ storage # NoItem
    /\ PersistedRecord.count >= maxLoginAttempts
    /\ now - PersistedRecord.timestamp > lockoutDuration

----------------------------------------------------------------------------
(* C1: with rate limiting enabled and maxLoginAttempts = 5, a running login  *)
(* page with no persisted record has count 0 and is not locked; every        *)
(* recorded login failure raises the count by exactly one, without a cap,    *)
(* and persists it; after a recorded failure the login is locked exactly     *)
(* when the count has reached 5.  So five consecutive failures from an       *)
(* absent record lock it, and a sixth failure (a call that was already in    *)
(* flight) makes the count 6 and leaves it locked.                           *)
C1_FailuresLock ==
    [][\A t \in Tabs :
        /\ (Ready(t, "login")' /\ storage' = NoItem) =>
              /\ page'[t].loginAttempts.count = 0
              /\ ~page'[t].isLocked
        /\ \A error \in LoginErrors :
              LoginFailure(t, error) =>
                 /\ page'[t].loginAttempts.count = page[t].loginAttempts.count + 1
                 /\ PersistedRecord'.count = page'[t].loginAttempts.count
                 /\ page'[t].isLocked <=> page'[t].loginAttempts.count >= 5
    ]_vars

\* a sixth failure has been recorded and the login is locked
C1_Witness ==
    \E t \in Tabs :
        /\ page[t].status = "ready"
        /\ page[t].loginAttempts.count = 6
        /\ PersistedRecord.count = 6
        /\ page[t].isLocked

----------------------------------------------------------------------------
(* C2: while the attempt record (in memory or persisted) has count >=        *)
(* maxLoginAttempts and less than lockoutDuration has passed since its       *)
(* timestamp, a login submission (form submit or Google click) starts no     *)
(* provider call, changes neither the in-memory nor the persisted record,    *)
(* and renders the lockout message with the form's controls disabled.        *)
C2_LockedSubmissionShortCircuits ==
    [][\A t \in Tabs :
        (/\ LoginSubmission(t)
         /\ \/ InLockout(page[t].loginAttempts, now)
            \/ InLockout(PersistedRecord, now))
        =>
        /\ page'[t].formCall = page[t].formCall
        /\ page'[t].popupCall = page[t].popupCall
        /\ page'[t].loading = page[t].loading
        /\ page'[t].loginAttempts = page[t].loginAttempts
        /\ storage' = storage
        /\ LockoutShown(page'[t])
        /\ page'[t].shown = <<MsgLockout>>
        /\ FormControls(page[t]) \subseteq page'[t].disabled
    ]_vars

\* a submission has been short-circuited inside the lockout window: only the
\* lockout message was rendered by the last handler, on a page whose field
\* errors show that it is not a freshly loaded one
C2_Witness ==
    \E t \in Tabs :
        /\ Ready(t, "login")
        /\ InLockout(page[t].loginAttempts, now)
        /\ page[t].shown = <<MsgLockout>>
        /\ FormControls(page[t]) \subseteq page[t].disabled
        /\ page[t].fieldErrors["password"] # ""

----------------------------------------------------------------------------
(* C3: after a lockout, once more than lockoutDuration has passed since the  *)
(* record's timestamp, the lockout check of the next page load returns       *)
(* false, leaves isLocked false and the page running, and clears the         *)
(* persisted record, so that the page's record has count 0.                  *)
C3_ExpiredLockoutClears ==
    [][\A t \in Tabs :
        (LoadLogin(t) /\ ExpiredAtLoad) =>
            /\ page'[t].status = "ready"
            /\ page'[t].tdz = {}
            /\ ~page'[t].isLocked
            /\ storage' = NoItem
            /\ page'[t].loginAttempts.count = 0
    ]_vars

----------------------------------------------------------------------------
(* C4: the lockout gate of a login submission is evaluated against the clock *)
(* at submission time: a submission made when the record is not inside its   *)
(* lockout window (count < maxLoginAttempts, or lockoutDuration has passed   *)
(* since the timestamp) is not short-circuited; the Google click starts the  *)
(* provider call and the form submission goes on to validation.              *)
C4_GateUsesClock ==
    [][\A t \in Tabs :
        /\ (ClickGoogleLogin(t) /\ ~InLockout(page[t].loginAttempts, now)) =>
              /\ page'[t].popupCall = "signInWithPopup"
              /\ page'[t].shown = <<>>
        /\ (SubmitLogin(t) /\ ~InLockout(page[t].loginAttempts, now)) =>
              page'[t].shown = <<>>
    ]_vars

----------------------------------------------------------------------------
(* C5: every call of resetLoginAttempts (after an accepted login, and in the *)
(* lockout check of a page load that finds the lockout run out) completes    *)
(* and yields isLocked = false, in-memory count 0 and no persisted entry;    *)
(* calling it again in the state it leaves changes nothing.                  *)
C5_ResetAlwaysClears ==
    [][\A t \in Tabs :
        (LoginSuccess(t) \/ (LoadLogin(t) /\ ExpiredAtLoad)) =>
            /\ page'[t].status = "ready"
            /\ "isLocked" \notin page'[t].tdz
            /\ ~page'[t].isLocked
            /\ page'[t].loginAttempts.count = 0
            /\ storage' = NoItem
            /\ resetLoginAttempts(View(t))'.loginAttempts.count = 0
            /\ resetLoginAttempts(View(t))'.storage = NoItem
            /\ resetLoginAttempts(View(t))'.isLocked = FALSE
    ]_vars

----------------------------------------------------------------------------
(* C6: every rejected login call (form or Google popup) raises the attempt   *)
(* count by exactly 1, sets the timestamp to the current time, persists the  *)
(* record, renders the translated error message and clears the loading state *)
(* of its trigger; while the resulting count is below maxLoginAttempts the   *)
(* translated message is the one left showing and the handler disables no    *)
(* control (it only re-enables its own trigger).                             *)
C6_RejectedPost(t, error, buttonId) ==
    /\ page'[t].loginAttempts =
          [count |-> page[t].loginAttempts.count + 1, timestamp |-> now]
    /\ storage' # NoItem
    /\ PersistedRecord' = page'[t].loginAttempts
    /\ page'[t].shown # <<>>
    /\ page'[t].shown[1] = TranslatedLoginText(error)
    /\ buttonId \notin page'[t].loading
    /\ page'[t].loginAttempts.count < maxLoginAttempts =>
          /\ page'[t].message = [text |-> TranslatedLoginText(error), minutes |-> 0,
                                 type |-> "error", show |-> TRUE]
          /\ page'[t].disabled = page[t].disabled \ {buttonId}

C6_RejectedLoginCounts ==
    [][\A t \in Tabs : \A error \in LoginErrors :
        /\ (SetPersistenceRejectedWith(t, error) \/ SignInRejectedWith(t, error)) =>
              C6_RejectedPost(t, error, "login-btn")
        /\ PopupRejectedWith(t, error) =>
              C6_RejectedPost(t, error, "google-login-btn")
    ]_vars

\* a first failure has been recorded: error showing, nothing loading, the
\* form still usable
C6_Witness ==
    \E t \in Tabs :
        /\ Ready(t, "login")
        /\ page[t].loginAttempts.count = 1
        /\ PersistedRecord = page[t].loginAttempts
        /\ page[t].message.show
        /\ page[t].message.text = "Incorrect password. Please try again."
        /\ page[t].loading = {}
        /\ page[t].disabled = {}

----------------------------------------------------------------------------
(* C7: every login the provider accepts resets the attempt record (count 0,  *)
(* persisted entry removed, isLocked false), leaves the success message      *)
(* showing and a redirect timer set that is due at most RedirectDelay later; *)
(* a pending redirect is dropped only by firing or by the user loading a     *)
(* page in the tab, it fires no earlier than it is due and takes the tab to  *)
(* the post-login page, and it does not stay pending forever.                *)
C7_SuccessPost(t, text) ==
    /\ page'[t].loginAttempts.count = 0
    /\ storage' = NoItem
    /\ ~page'[t].isLocked
    /\ page'[t].message = [text |-> text, minutes |-> 0,
                           type |-> "success", show |-> TRUE]
    /\ page'[t].navAt # NoTimer
    /\ page'[t].navAt <= now + RedirectDelay
    /\ page'[t].navAt >= now

C7_SuccessRedirects ==
    /\ [][\A t \in Tabs :
            /\ SignInResolved(t) => C7_SuccessPost(t, MsgLoginSuccess)
            /\ PopupResolved(t) => C7_SuccessPost(t, MsgGoogleSuccess)
            /\ (page[t].navAt # NoTimer /\ page'[t].navAt = NoTimer) =>
                  \/ Redirect(t) /\ page'[t].url = "logged" /\ now' >= page[t].navAt
                  \/ LoadLogin(t)
                  \/ LoadSignup(t)
       ]_vars
    /\ \A t \in Tabs :
          (page[t].url = "login" /\ page[t].navAt # NoTimer)
              ~> (page[t].url = "logged" \/ page[t].navAt = NoTimer)

\* a Google login accepted after the page had locked (its call was in flight)
\* has reset the record, and its redirect is pending
C7_Witness ==
    \E t \in Tabs :
        /\ Ready(t, "login")
        /\ page[t].navAt # NoTimer
        /\ page[t].navAt = now + RedirectDelay
        /\ page[t].message.text = MsgGoogleSuccess
        /\ page[t].message.show
        /\ "inputs" \in page[t].disabled
        /\ page[t].loginAttempts.count = 0
        /\ ~page[t].isLocked
        /\ storage = NoItem

----------------------------------------------------------------------------
(* C8: a form submission that reaches validation with an email or password   *)
(* that fails it starts no provider call and leaves the attempt record, the  *)
(* persisted entry, isLocked, the loading state, the message and the         *)
(* disabled controls unchanged; it renders a field error.                    *)
C8_InvalidSubmissionAborts ==
    [][\A t \in Tabs : \A email \in Emails, password \in Passwords :
        (/\ SubmitLoginWith(t, email, password)
         /\ ~page[t].isLocked
         /\ ~ValidLoginInput(trim(formValue(page[t], email)),
                             formValue(page[t], password)))
        =>
        /\ page'[t].formCall = page[t].formCall
        /\ page'[t].popupCall = page[t].popupCall
        /\ page'[t].loginAttempts = page[t].loginAttempts
        /\ storage' = storage
        /\ page'[t].isLocked = page[t].isLocked
        /\ page'[t].loading = page[t].loading
        /\ page'[t].disabled = page[t].disabled
        /\ page'[t].message = page[t].message
        /\ page'[t].shown = <<>>
        /\ page'[t].navAt = page[t].navAt
        /\ \E f \in {"email", "password"} : page'[t].fieldErrors[f] # ""
    ]_vars

\* an invalid submission has been rejected on a page with no failure so far
C8_Witness ==
    \E t \in Tabs :
        /\ Ready(t, "login")
        /\ page[t].fieldErrors["email"] = MsgEmailInvalid
        /\ page[t].fieldErrors["password"] = MsgPasswordShort
        /\ page[t].formCall = "idle"
        /\ page[t].loading = {}
        /\ page[t].loginAttempts.count = 0
        /\ storage = NoItem
        /\ ~page[t].message.show

----------------------------------------------------------------------------
(* C9: the loading state of a trigger is set only while the provider call of *)
(* its submission is in flight: once the call has completed, by success or   *)
(* by any failure, the trigger's loading state is cleared, on the login page *)
(* and on the signup page.                                                   *)
C9_LoadingReleased ==
    \A t \in Tabs :
        /\ page[t].formCall = "idle" =>
              page[t].loading \cap {"login-btn", "signup-btn"} = {}
        /\ page[t].popupCall = "idle" =>
              page[t].loading \cap {"google-login-btn", "google-signup-btn"} = {}

\* a rejected signup has completed: its error is showing and nothing is loading
C9_Witness ==
    \E t \in Tabs :
        /\ Ready(t, "signup")
        /\ page[t].formCall = "idle"
        /\ page[t].popupCall = "idle"
        /\ page[t].loading = {}
        /\ page[t].message.show
        /\ page[t].message.type = "error"

----------------------------------------------------------------------------
(* C10: when a rejected login brings the count to maxLoginAttempts, then     *)
(* after the handler has finished the lockout message is the message shown   *)
(* and every input and button of the login form, the submit button included, *)
(* is disabled.                                                              *)
C10_ThresholdDisablesForm ==
    [][\A t \in Tabs : \A error \in LoginErrors :
        (/\ LoginFailure(t, error)
         /\ page'[t].loginAttempts.count >= maxLoginAttempts)
        =>
        /\ LockoutShown(page'[t])
        /\ FormControls(page[t]) \subseteq page'[t].disabled
    ]_vars

----------------------------------------------------------------------------
(* C11: reading the attempt record never fails.  When the page is loaded     *)
(* with the item missing or malformed, the read yields {count: 0,            *)
(* timestamp: now} and the page finishes its initialization.                 *)
C11_ReadNeverFails ==
    [][\A t \in Tabs :
        ((storage = NoItem \/ ~IsJSON(storage)) /\ LoadLogin(t)) =>
            /\ page'[t].status = "ready"
            /\ page'[t].loginAttempts = [count |-> 0, timestamp |-> now]
    ]_vars

----------------------------------------------------------------------------
(* C12: with enableRateLimiting = false, whatever item is persisted, a       *)
(* loaded login page never has isLocked true, no login submission is         *)
(* answered with the lockout message, and a rejected login changes neither   *)
(* the in-memory record nor the persisted item.                              *)
C12_DisabledNeverLocks ==
    [][\A t \in Tabs :
        /\ Ready(t, "login")' => ~page'[t].isLocked
        /\ LoginSubmission(t) =>
              /\ page'[t].shown = <<>>
              /\ ~LockoutShown(page'[t])
        /\ \A error \in LoginErrors :
              LoginFailure(t, error) =>
                  /\ page'[t].loginAttempts = page[t].loginAttempts
                  /\ storage' = storage
                  /\ page'[t].shown = <<TranslatedLoginText(error)>>
    ]_vars

\* a login was rejected on a page loaded over a persisted record that
\* would lock it: the record is as it was, the page is not locked
C12_Witness ==
    /\ ~CONFIG.enableRateLimiting
    /\ \E t \in Tabs :
          /\ Ready(t, "login")
          /\ storage = JSONstringify([count |-> maxLoginAttempts, timestamp |-> 0])
          /\ now < lockoutDuration
          /\ page[t].loginAttempts = [count |-> maxLoginAttempts, timestamp |-> 0]
          /\ ~page[t].isLocked
          /\ page[t].shown = <<"Incorrect password. Please try again.">>
          /\ page[t].disabled = {}

----------------------------------------------------------------------------
\* the count of the persisted record (0 when there is none)
PersistedCount == IF IsJSON(storage) THEN JSONparse(storage).count ELSE 0

\* the lockout check of a page load finds a lockout that has run out
ExpiryReset(t) ==
    /\ IsJSON(storage)
    /\ JSONparse(storage).count >= maxLoginAttempts
    /\ now - JSONparse(storage).timestamp >= lockoutDuration
    /\ LoadLogin(t)

(* C13: the persisted count goes down only at a reset (an accepted login or  *)
(* the expiry check of a page load), and it does not go down while the       *)
(* record is inside its lockout window.                                      *)
C13_CountNeverDrops ==
    [][/\ PersistedCount' < PersistedCount =>
              \E t \in Tabs : LoginSuccess(t) \/ ExpiryReset(t)
       /\ InLockout(PersistedRecord, now) => PersistedCount' >= PersistedCount
    ]_vars

----------------------------------------------------------------------------
(* C14: on a login page at most one login provider call is outstanding: no   *)
(* second call is started while one is in flight.                            *)
C14_OneLoginCallOutstanding ==
    \A t \in Tabs :
        page[t].url = "login" =>
            page[t].formCall = "idle" \/ page[t].popupCall = "idle"

----------------------------------------------------------------------------
(* C15: the login page translates every provider error: each of the eight    *)
(* known codes gives its canned sentence whatever the error's message, any   *)
(* other code gives the error's message, or the generic sentence when that   *)
(* is empty; the handler completes with an error message on display.         *)
C15_TranslationTotal ==
    [][\A t \in Tabs : \A error \in AnyLoginErrors :
        LoginFailure(t, error) =>
            /\ page'[t].shown # <<>>
            /\ page'[t].shown[1] =
                  (IF error.code \in KnownLoginCodes THEN CannedLoginText[error.code]
                   ELSE IF error.message # "" THEN error.message
                   ELSE "An unexpected error occurred. Please try again.")
            /\ page'[t].message.show
            /\ page'[t].message.type = "error"
            /\ page'[t].message.text = page'[t].shown[Len(page'[t].shown)]
            /\ page'[t].status = "ready"
    ]_vars

\* the second rejected login of the page carried a known code and was
\* translated to that code's canned sentence
C15_Witness ==
    \E t \in Tabs :
        /\ Ready(t, "login")
        /\ page[t].shown = <<"Pop-up was blocked. Please allow pop-ups and try again.">>
        /\ page[t].message.show
        /\ page[t].message.type = "error"
        /\ page[t].loginAttempts.count = 2
        /\ page[t].loading = {}

----------------------------------------------------------------------------
\* characters [first..last] of str are one or more non-space, non-@ characters
PlainRun(str, first, last) ==
    /\ first <= last
    /\ \A k \in first..last : str[k] # " " /\ str[k] # "@"

\* one or more such characters, '@', one or more, '.', one or more
MatchesEmailPattern(str) ==
    \E i \in 1..Len(str) : \E j \in 1..Len(str) :
        /\ str[i] = "@"
        /\ str[j] = "."
        /\ PlainRun(str, 1, i - 1)
        /\ PlainRun(str, i + 1, j - 1)
        /\ PlainRun(str, j + 1, Len(str))

\* the one error each field is to report ("" when the field passes)
ExpectedEmailError(email) ==
    IF email = <<>> THEN "Email is required"
    ELSE IF ~MatchesEmailPattern(email) THEN "Please enter a valid email address"
    ELSE ""

ExpectedPasswordError(password) ==
    IF password = <<>> THEN "Password is required"
    ELSE IF Len(password) < 6 THEN "Password must be at least 6 characters"
    ELSE ""

(* C16: a submission of the login form on a page that is not locked passes   *)
(* validation (and starts the provider call) iff the email is non-empty and  *)
(* matches the pattern and the password is non-empty and at least 6 long;    *)
(* a failing field gets exactly its one error (required when empty, format   *)
(* or length otherwise), a passing field gets none.                          *)
C16_ValidationExact ==
    [][\A t \in Tabs : \A email \in FormEmails, password \in FormPasswords :
        (~page[t].isLocked /\ SubmitLoginWith(t, email, password)) =>
            /\ page'[t].formCall = "setPersistence" <=>
                  (ExpectedEmailError(email) = "" /\ ExpectedPasswordError(password) = "")
            /\ page'[t].fieldErrors["email"] =
                  (IF ExpectedEmailError(email) # "" THEN ExpectedEmailError(email)
                   ELSE page[t].fieldErrors["email"])
            /\ page'[t].fieldErrors["password"] =
                  (IF ExpectedPasswordError(password) # "" THEN ExpectedPasswordError(password)
                   ELSE page[t].fieldErrors["password"])
            /\ page'[t].fieldErrors["confirm-password"] = ""
    ]_vars

\* ("a@b.com", "12345"-like five characters) was submitted on a fresh page:
\* only the password-length error is on display and no call was started
C16_Witness ==
    \E t \in Tabs :
        /\ Ready(t, "login")
        /\ page[t].fieldErrors["email"] = ""
        /\ page[t].fieldErrors["password"] = "Password must be at least 6 characters"
        /\ page[t].formCall = "idle"
        /\ page[t].loginAttempts.count = 0
        /\ page[t].disabled = {}

----------------------------------------------------------------------------
\* a step of the signup page's handlers in tab t
SignupStep(t) ==
    \/ SubmitSignup(t)
    \/ CreateUserResolved(t)
    \/ CreateUserRejected(t)
    \/ UpdateProfileResolved(t)
    \/ UpdateProfileRejected(t)
    \/ ClickGoogleSignup(t)
    \/ SignupPopupResolved(t)
    \/ SignupPopupRejected(t)

(* C17: no step of a signup (submission, validation failure, acceptance or   *)
(* rejection by the provider, by email/password or Google) changes the       *)
(* persisted attempt record, and none is blocked by a login lockout: a       *)
(* submission starts its provider call unless validation rejects it, and     *)
(* the lockout message is never shown and nothing but the busy button is     *)
(* disabled on the signup page.                                              *)
C17_SignupIgnoresLockout ==
    [][\A t \in Tabs :
        /\ SignupStep(t) =>
              /\ storage' = storage
              /\ \A i \in 1..Len(page'[t].shown) : page'[t].shown[i] # MsgLockout
              /\ page'[t].disabled \subseteq page'[t].loading
        /\ SubmitSignup(t) =>
              \/ page'[t].formCall = "createUser"
              \/ \E f \in DOMAIN page'[t].fieldErrors : page'[t].fieldErrors[f] # ""
        /\ ClickGoogleSignup(t) => page'[t].popupCall = "signInWithPopup"
    ]_vars

\* a signup was rejected by the provider while the persisted record is
\* inside its lockout window, and another one is in flight
C17_Witness ==
    \E t \in Tabs :
        /\ Ready(t, "signup")
        /\ IsJSON(storage)
        /\ InLockout(JSONparse(storage), now)
        /\ page[t].formCall = "createUser"
        /\ page[t].message.type = "error"
        /\ page[t].message.text = "An account already exists with this email address."

----------------------------------------------------------------------------
(* C18: whenever the lockout message is on display, the remaining time it    *)
(* shows is at least 1 and at most 15 minutes.                               *)
C18_RemainingMinutesInRange ==
    \A t \in Tabs :
        LockoutShown(page[t]) =>
            /\ page[t].message.minutes >= 1
            /\ page[t].message.minutes <= lockoutDuration \div 60000

----------------------------------------------------------------------------
(* C19: a load of the login page over a well-formed persisted state (no      *)
(* item, or a record with any count and timestamp) always completes:         *)
(* loginAttempts and isLocked are both initialized, nothing is thrown and    *)
(* the handlers are registered.                                              *)
C19_InitializationCompletes ==
    [][\A t \in Tabs :
        ((storage = NoItem \/ IsJSON(storage)) /\ LoadLogin(t)) =>
            /\ page'[t].status = "ready"
            /\ page'[t].thrown = ""
            /\ page'[t].tdz = {}
    ]_vars

----------------------------------------------------------------------------
\* a submission of tab t gets past the gate and validation: a provider call
\* is started
CallStarted(t) ==
    \/ page[t].formCall = "idle" /\ page'[t].formCall # "idle"
    \/ page[t].popupCall = "idle" /\ page'[t].popupCall # "idle"

(* C20: with two login pages open on the same storage, once the persisted    *)
(* record is locked (count >= 5, inside the window) neither page starts a    *)
(* new provider call, and a failure recorded by a page never lowers the      *)
(* persisted count.                                                          *)
C20_TabsShareTheLock ==
    [][\A t \in TwoTabs :
        /\ (IsJSON(storage) /\ InLockout(JSONparse(storage), now)) => ~CallStarted(t)
        /\ \A error \in LoginErrors :
              LoginFailure(t, error) => PersistedCount' >= PersistedCount
    ]_vars

(* C20, amended: each page gates on its own in-memory state.  A page starts  *)
(* no new provider call once its own isLocked flag is set (at its load or at *)
(* its own failure that reached the threshold); a failure persists the       *)
(* recording page's own in-memory count plus one, whatever the other page    *)
(* has written.                                                              *)
C20_EachTabGatesOnItsOwnState ==
    [][\A t \in TwoTabs :
        /\ (Ready(t, "login") /\ page[t].isLocked) => ~CallStarted(t)
        /\ \A error \in LoginErrors :
              LoginFailure(t, error) =>
                  /\ PersistedCount' = page[t].loginAttempts.count + 1
                  /\ page'[t].loginAttempts.count = page[t].loginAttempts.count + 1
    ]_vars

\* one page is locked with five failures of its own, and the other page,
\* loaded before that, has since recorded its first failure: the persisted
\* count is 1
C20_Witness ==
    \E t \in TwoTabs : \E u \in TwoTabs \ {t} :
        /\ Ready(t, "login")
        /\ Ready(u, "login")
        /\ page[t].isLocked
        /\ page[t].loginAttempts.count = maxLoginAttempts
        /\ ~page[u].isLocked
        /\ page[u].loginAttempts.count = 1
        /\ PersistedCount = 1
        /\ page[u].shown = <<"Incorrect password. Please try again.">>

----------------------------------------------------------------------------
(* C21: on a single page, once the login page has initialized and after      *)
(* every handler step, the in-memory attempt record mirrors storage: a       *)
(* persisted record has the in-memory count and timestamp, and with no       *)
(* persisted record the in-memory count is 0.                                *)
C21_MemoryMirrorsStorage ==
    \A t \in Tabs :
        Ready(t, "login") =>
            /\ IsJSON(storage) => JSONparse(storage) = page[t].loginAttempts
            /\ storage = NoItem => page[t].loginAttempts.count = 0

\* three failures, the last one after the clock has advanced: the page's
\* record and the persisted one agree on count and timestamp
C21_Witness ==
    \E t \in Tabs :
        /\ Ready(t, "login")
        /\ IsJSON(storage)
        /\ page[t].loginAttempts.count = 3
        /\ page[t].loginAttempts.timestamp = now
        /\ now > 0
        /\ JSONparse(storage) = page[t].loginAttempts
        /\ page[t].message.type = "error"

----------------------------------------------------------------------------
(* C22: on a single page with rate limiting enabled, in every state after    *)
(* initialization isLocked is true iff the in-memory count is at least       *)
(* maxLoginAttempts, under any interleaving of the completions of the        *)
(* email/password and Google logins.                                         *)
C22_LockedIffThreshold ==
    \A t \in Tabs :
        Ready(t, "login") =>
            (page[t].isLocked <=> page[t].loginAttempts.count >= maxLoginAttempts)

\* the form's call and the Google call were both in flight at count 4 and
\* both were rejected: count 6, locked
C22_Witness ==
    \E t \in Tabs :
        /\ Ready(t, "login")
        /\ page[t].loginAttempts.count = maxLoginAttempts + 1
        /\ page[t].isLocked
        /\ page[t].formCall = "idle"
        /\ page[t].popupCall = "idle"

====
